---- MODULE Spec2Model ----
(***************************************************************************)
(* Model of the component palette of the desktop front end                 *)
(* (desktop-frontend/src/component_library.py): ComponentLibrary loads the *)
(* rows of Component_Details.csv, renders one ComponentButton per row      *)
(* whose icon file exists, filters the buttons by the search box text and  *)
(* starts a drag from a button once the pointer has moved far enough.      *)
(*                                                                         *)
(* A Python str is a sequence of one-character strings; a csv field is     *)
(* None (the column is missing from a short row) or Some(str).             *)
(***************************************************************************)
EXTENDS Integers, Sequences, FiniteSets, TLC

(***************************************************************************)
(* Bounds of the model.                                                    *)
(***************************************************************************)
MaxLoadRows == 3
MaxPanelRows == 2

(***************************************************************************)
(* Strings.                                                                *)
(***************************************************************************)
None == <<>>
Some(s) == <<s>>

\* Code point of the characters the model uses (str comparison is by code point).
Ord(c) ==
    CASE c = " " -> 32
      [] c = "A" -> 65
      [] c = "B" -> 66
      [] c = "a" -> 97
      [] c = "b" -> 98

IsSpace(c) == c = " "

\* str.lower() of one character.
LowerChar(c) ==
    CASE c = "A" -> "a"
      [] c = "B" -> "b"
      [] OTHER -> c

\* str.lower()
Lower(s) == [i \in 1..Len(s) |-> LowerChar(s[i])]

RECURSIVE LStrip(_)
LStrip(s) == IF s # <<>> /\ IsSpace(Head(s)) THEN LStrip(Tail(s)) ELSE s

RECURSIVE RStrip(_)
RStrip(s) ==
    IF s # <<>> /\ IsSpace(s[Len(s)]) THEN RStrip(SubSeq(s, 1, Len(s) - 1)) ELSE s

\* str.strip()
Strip(s) == RStrip(LStrip(s))

\* s < t for two str (lexicographic by code point)
RECURSIVE StrLess(_, _)
StrLess(s, t) ==
    IF t = <<>> THEN FALSE
    ELSE IF s = <<>> THEN TRUE
    ELSE IF Ord(Head(s)) < Ord(Head(t)) THEN TRUE
    ELSE IF Ord(Head(s)) > Ord(Head(t)) THEN FALSE
    ELSE StrLess(Tail(s), Tail(t))

\* s in t for two str
IsSubstring(s, t) ==
    \E i \in 0..(Len(t) - Len(s)) : SubSeq(t, i + 1, i + Len(s)) = s

\* truth value of a csv field: None and '' are false
Truthy(f) == f # None /\ f[1] # <<>>

(***************************************************************************)
(* Inputs: the rows the csv reader yields, and the icon files on disk.     *)
(***************************************************************************)
Row(p, n, o) == [raises |-> FALSE, parent |-> p, name |-> n, object |-> o]

\* a row on which the reader raises (csv.Error: field larger than field limit)
RaisingRow == [raises |-> TRUE, parent |-> None, name |-> None, object |-> None]

LoadRows ==
    { Row(Some(<<"A">>), Some(<<"B">>), Some(<<"a">>)),
      Row(Some(<<"A">>), Some(<<"B">>), Some(<<"b">>)),
      Row(Some(<<"A">>), Some(<<" ", "B">>), Some(<<"b", " ">>)),
      Row(Some(<<"A">>), Some(<<"A", "b">>), None),
      Row(Some(<<"a">>), Some(<<"B">>), Some(<<>>)),
      Row(Some(<<"B">>), Some(<<"a">>), Some(<<"B">>)),
      Row(Some(<<" ">>), Some(<<"B">>), Some(<<"a">>)),
      Row(Some(<<"A">>), Some(<<" ">>), Some(<<"a">>)),
      Row(Some(<<"A">>), None, None),
      Row(Some(<<>>), Some(<<"B">>), Some(<<"a">>)),
      RaisingRow }

PanelRows ==
    { Row(Some(<<"A">>), Some(<<"B">>), Some(<<"a">>)),
      Row(Some(<<"a">>), Some(<<"A", "b">>), None),
      Row(Some(<<" ">>), Some(<<"b">>), Some(<<"B">>)) }

\* the search box texts tried
Queries == { <<>>, <<"a">>, <<"A">>, <<"a", "B">>, <<" ">> }

\* pointer positions inside a button (QPoint x, y): where the button is
\* pressed, and where the pointer moves to
PressPoints == { <<0, 0>>, <<3, 4>> }
MovePoints == { <<0, 0>>, <<3, 4>>, <<20, 0>> }

MouseButtons == { "left", "right" }

SeqsUpTo(S, n) == UNION { [1..k -> S] : k \in 0..n }

(***************************************************************************)
(* State.                                                                  *)
(***************************************************************************)
VARIABLES
    pc,               \* position of ComponentLibrary.__init__
    sourceExists,     \* os.path.exists(csv_path)
    rows,             \* what csv.DictReader yields for the file
    iconFiles,        \* the icon paths that exist on disk
    component_data,   \* ComponentLibrary.component_data
    icon_buttons,     \* ComponentLibrary.icon_buttons
    iconLookups,      \* number of calls of _get_icon_path
    visible,          \* visible[i]: icon_buttons[i] is not hidden
    searchText,       \* text of search_box
    filterCalls,      \* how often _filter_icons has run: "none", "once", "more"
    dragStartPosition,\* dragStartPosition[i] of icon_buttons[i]
    gesture,          \* the pointer gesture in progress, or the last one that dragged
    lastDrag          \* the last drag started: None or Some(index, mime text)

vars == <<pc, sourceExists, rows, iconFiles, component_data, icon_buttons,
          iconLookups, visible, searchText, filterCalls, dragStartPosition,
          gesture, lastDrag>>

(***************************************************************************)
(* _load_components                                                        *)
(***************************************************************************)
Entry(r) ==
    [parent |-> Strip(r.parent[1]),
     name   |-> Strip(r.name[1]),
     object |-> IF Truthy(r.object) THEN Strip(r.object[1]) ELSE <<>>]

\* the for loop inside the try block: an exception leaves the loop
RECURSIVE ReadRows(_, _)
ReadRows(rs, acc) ==
    IF rs = <<>> THEN acc
    ELSE IF Head(rs).raises THEN acc
    ELSE IF Truthy(Head(rs).parent) /\ Truthy(Head(rs).name)
         THEN ReadRows(Tail(rs), Append(acc, Entry(Head(rs))))
         ELSE ReadRows(Tail(rs), acc)

LoadResult(exists, rs, data) == IF ~exists THEN data ELSE ReadRows(rs, data)

LoadComponents ==
    /\ pc = "load"
    /\ component_data' = LoadResult(sourceExists, rows, component_data)
    /\ pc' = "populate"
    /\ UNCHANGED <<sourceExists, rows, iconFiles, icon_buttons, iconLookups,
                   visible, searchText, filterCalls, dragStartPosition,
                   gesture, lastDrag>>

(***************************************************************************)
(* _populate_icons                                                         *)
(***************************************************************************)
\* os.path.join("ui", "assets", "png", parent, name + ".png") as path components
GetIconPath(parent, name) ==
    <<"ui", "assets", "png">> \o (IF parent = <<>> THEN <<>> ELSE <<parent>>)
        \o <<name \o <<".png">> >>

\* sorted(): stable insertion sort of <<key, value>> pairs by key
RECURSIVE InsertSorted(_, _)
InsertSorted(x, s) ==
    IF s = <<>> THEN <<x>>
    ELSE IF StrLess(x[1], Head(s)[1]) THEN <<x>> \o s
    ELSE <<Head(s)>> \o InsertSorted(x, Tail(s))

RECURSIVE SortPairs(_)
SortPairs(s) ==
    IF s = <<>> THEN <<>>
    ELSE InsertSorted(s[Len(s)], SortPairs(SubSeq(s, 1, Len(s) - 1)))

\* sorted(grouped.keys())
SortedKeys(keys) ==
    LET ps == SortPairs([i \in 1..Len(keys) |-> <<keys[i], keys[i]>>])
    IN [i \in 1..Len(ps) |-> ps[i][2]]

\* sorted(grouped[parent_name], key=lambda x: x['name'])
SortedByName(comps) ==
    LET ps == SortPairs([i \in 1..Len(comps) |-> <<comps[i].name, comps[i]>>])
    IN [i \in 1..Len(ps) |-> ps[i][2]]

\* grouped[parent]: the components of one category in load order
Grouped(data, parent) ==
    LET InGroup(c) == c.parent = parent IN SelectSeq(data, InGroup)

\* list(grouped.keys()) in insertion order
RECURSIVE GroupKeys(_, _)
GroupKeys(data, keys) ==
    IF data = <<>> THEN keys
    ELSE LET p == Head(data).parent
             Seen == \E i \in 1..Len(keys) : keys[i] = p
         IN GroupKeys(Tail(data), IF Seen THEN keys ELSE Append(keys, p))

Button(component, parent_name) ==
    [component |-> component, category |-> parent_name,
     component_name |-> component.name]

\* faulty variant: every component gets a button, whether or not its icon exists
ShouldRenderAlways(icon_path, files) == TRUE

\* os.path.exists(icon_path)
ShouldRender(icon_path, files) == icon_path \in files

\* the buttons of one category
RECURSIVE GroupButtons(_, _, _)
GroupButtons(comps, parent_name, files) ==
    IF comps = <<>> THEN <<>>
    ELSE LET c == Head(comps)
             rest == GroupButtons(Tail(comps), parent_name, files)
         IN IF ShouldRender(GetIconPath(parent_name, c.name), files)
            THEN <<Button(c, parent_name)>> \o rest
            ELSE rest

RECURSIVE AllButtons(_, _, _)
AllButtons(keys, data, files) ==
    IF keys = <<>> THEN <<>>
    ELSE GroupButtons(SortedByName(Grouped(data, Head(keys))), Head(keys), files)
            \o AllButtons(Tail(keys), data, files)

PopulateResult(data, files) ==
    AllButtons(SortedKeys(GroupKeys(data, <<>>)), data, files)

PopulateIcons ==
    /\ pc = "populate"
    /\ icon_buttons' = PopulateResult(component_data, iconFiles)
    /\ iconLookups' = iconLookups + Len(component_data)
    /\ visible' = [i \in 1..Len(icon_buttons') |-> TRUE]
    /\ dragStartPosition' = [i \in 1..Len(icon_buttons') |-> None]
    /\ pc' = "ready"
    /\ UNCHANGED <<sourceExists, rows, iconFiles, component_data, searchText,
                   filterCalls, gesture, lastDrag>>

(***************************************************************************)
(* _filter_icons                                                           *)
(***************************************************************************)
\* faulty variant: the search text is compared as typed
MatchesAsTyped(search_text, button) ==
    LET category == Lower(button.category)
        component == Lower(button.component_name)
    IN IsSubstring(search_text, component) \/ IsSubstring(search_text, category)

Matches(search_text, button) ==
    LET st == Lower(search_text)
        category == Lower(button.category)
        component == Lower(button.component_name)
    IN IsSubstring(st, component) \/ IsSubstring(st, category)

\* faulty variant: a hidden button stays hidden
SetVisibleHideOnly(prev, matches) == prev /\ matches

\* button.setVisible(matches) on a button whose flag was prev
SetVisible(prev, matches) == matches

\* faulty variant: only a non-empty search text is matched
FilterResultNonEmpty(buttons, vis, search_text) ==
    [i \in 1..Len(buttons) |->
        search_text # <<>> /\ Matches(search_text, buttons[i])]

FilterResult(buttons, vis, search_text) ==
    [i \in 1..Len(buttons) |-> SetVisible(vis[i], Matches(search_text, buttons[i]))]

\* faulty variant: the filter rebuilds the palette before it hides buttons
FilterIconsRebuild(search_text) ==
    /\ pc = "ready"
    /\ icon_buttons' = PopulateResult(component_data, iconFiles)
    /\ iconLookups' = iconLookups + Len(component_data)
    /\ visible' = FilterResult(icon_buttons', visible, search_text)
    /\ searchText' = search_text
    /\ filterCalls' = IF filterCalls = "none" THEN "once" ELSE "more"
    /\ UNCHANGED <<pc, sourceExists, rows, iconFiles, component_data,
                   dragStartPosition, gesture, lastDrag>>

FilterIcons(search_text) ==
    /\ pc = "ready"
    /\ visible' = FilterResult(icon_buttons, visible, search_text)
    /\ searchText' = search_text
    /\ filterCalls' = IF filterCalls = "none" THEN "once" ELSE "more"
    /\ UNCHANGED <<pc, sourceExists, rows, iconFiles, component_data,
                   icon_buttons, iconLookups, dragStartPosition, gesture,
                   lastDrag>>

(***************************************************************************)
(* ComponentButton: mousePressEvent, mouseMoveEvent                        *)
(***************************************************************************)
DragThreshold == 10

Abs(x) == IF x < 0 THEN -x ELSE x

\* (p - q).manhattanLength()
ManhattanLength(p, q) == Abs(p[1] - q[1]) + Abs(p[2] - q[2])

\* bool(dragStartPosition): None is false, and so is a null QPoint
\* (QPoint.__bool__ is not isNull())
PointTruthy(p) == p # None /\ ~(p[1][1] = 0 /\ p[1][2] = 0)

Idle == [button |-> 0, held |-> "none", reached |-> FALSE, drags |-> 0]

MousePress(i, b, pos) ==
    /\ pc = "ready"
    /\ gesture.held = "none"
    /\ i \in 1..Len(icon_buttons)
    /\ visible[i]
    /\ dragStartPosition' =
          IF b = "left" THEN [dragStartPosition EXCEPT ![i] = Some(pos)]
          ELSE dragStartPosition
    /\ gesture' = [button |-> i, held |-> b, reached |-> FALSE, drags |-> 0]
    /\ UNCHANGED <<pc, sourceExists, rows, iconFiles, component_data,
                   icon_buttons, iconLookups, visible, searchText, filterCalls,
                   lastDrag>>

\* the move handler starts a drag
StartsDrag(held, start, pos) ==
    /\ held = "left"
    /\ PointTruthy(start)
    /\ ~(ManhattanLength(pos, start[1]) < DragThreshold)

\* a move event of the button that has the pointer; drag.exec_ returns when
\* the pressed button has been released, which ends the gesture
MouseMove(i, pos) ==
    /\ pc = "ready"
    /\ gesture.held # "none"
    /\ gesture.button = i
    /\ LET start == dragStartPosition[i]
           far == /\ gesture.held = "left"
                  /\ start # None
                  /\ ManhattanLength(pos, start[1]) >= DragThreshold
       IN IF StartsDrag(gesture.held, start, pos)
          THEN /\ lastDrag' = Some([button |-> i,
                                     text |-> icon_buttons[i].component.object])
               /\ gesture' = [gesture EXCEPT !.held = "none", !.reached = TRUE,
                                             !.drags = @ + 1]
          ELSE /\ lastDrag' = lastDrag
               /\ gesture' = [gesture EXCEPT !.reached = @ \/ far]
    /\ UNCHANGED <<pc, sourceExists, rows, iconFiles, component_data,
                   icon_buttons, iconLookups, visible, searchText, filterCalls,
                   dragStartPosition>>

\* the pressed button is released without a drag (no handler in the class)
MouseRelease(i) ==
    /\ pc = "ready"
    /\ gesture.held # "none"
    /\ gesture.button = i
    /\ gesture' = Idle
    /\ UNCHANGED <<pc, sourceExists, rows, iconFiles, component_data,
                   icon_buttons, iconLookups, visible, searchText, filterCalls,
                   dragStartPosition, lastDrag>>

(***************************************************************************)
(* Specifications.                                                         *)
(***************************************************************************)
\* icon files that may exist on disk
PanelIcons ==
    { GetIconPath(<<"A">>, <<"B">>), GetIconPath(<<"a">>, <<"A", "b">>),
      GetIconPath(<<>>, <<"b">>) }

LoadIcons ==
    { GetIconPath(<<"A">>, <<"B">>), GetIconPath(<<"A">>, <<"A", "b">>),
      GetIconPath(<<"a">>, <<"B">>), GetIconPath(<<>>, <<"B">>) }

\* the state at the start of ComponentLibrary.__init__, for the given inputs
InitWith(RowSet, n, Icons) ==
    /\ pc = "load"
    /\ sourceExists \in BOOLEAN
    /\ rows \in IF sourceExists THEN SeqsUpTo(RowSet, n) ELSE { <<>> }
    /\ iconFiles \in SUBSET Icons
    /\ component_data = <<>>
    /\ icon_buttons = <<>>
    /\ iconLookups = 0
    /\ visible = <<>>
    /\ searchText = <<>>
    /\ filterCalls = "none"
    /\ dragStartPosition = <<>>
    /\ gesture = Idle
    /\ lastDrag = None

Init == InitWith(PanelRows, MaxPanelRows, PanelIcons)

Next ==
    \/ LoadComponents
    \/ PopulateIcons
    \/ \E q \in Queries : FilterIcons(q)
    \/ \E i \in 1..Len(icon_buttons), b \in MouseButtons, pos \in PressPoints :
           MousePress(i, b, pos)
    \/ \E i \in 1..Len(icon_buttons), pos \in MovePoints : MouseMove(i, pos)
    \/ \E i \in 1..Len(icon_buttons) : MouseRelease(i)

Spec == Init /\ [][Next]_vars

\* construction only, over a larger set of csv files
InitLoad == InitWith(LoadRows, MaxLoadRows, LoadIcons)

NextLoad == LoadComponents \/ PopulateIcons

SpecLoad == InitLoad /\ [][NextLoad]_vars

(***************************************************************************)
(* Properties.                                                             *)
(***************************************************************************)
\* (category, name) identity of a catalog entry
IdentityOf(e) == <<e.parent, e.name>>

\* indices of the rows the loader reads and keeps: valid rows before any
\* row on which the reader raises
KeptRows ==
    { k \in 1..Len(rows) :
        /\ \A j \in 1..k : ~rows[j].raises
        /\ Truthy(rows[k].parent)
        /\ Truthy(rows[k].name) }

\* C1: after _load_components, every identity of a kept row has exactly one
\* entry in component_data (and at most one button once populated), and that
\* entry carries the payload of the last row of that identity.
C1_LastWriteWins ==
    pc # "load" =>
        \A k \in KeptRows :
            LET id == IdentityOf(Entry(rows[k]))
                last == CHOOSE m \in KeptRows :
                            /\ IdentityOf(Entry(rows[m])) = id
                            /\ \A n \in KeptRows :
                                   IdentityOf(Entry(rows[n])) = id => n <= m
                same == { i \in 1..Len(component_data) :
                            IdentityOf(component_data[i]) = id }
                btns == { i \in 1..Len(icon_buttons) :
                            IdentityOf(icon_buttons[i].component) = id }
            IN /\ Cardinality(same) = 1
               /\ \A i \in same :
                      component_data[i].object = Entry(rows[last]).object
               /\ Cardinality(btns) <= 1

\* C2: no entry stored by _load_components has an empty category or name.
C2_NoEmptyFields ==
    \A i \in 1..Len(component_data) :
        component_data[i].parent # <<>> /\ component_data[i].name # <<>>

\* C3: for a readable source, every valid row is in the catalog after
\* _load_components, whatever malformed rows precede it.
C3_MalformedRowSkipped ==
    (pc # "load" /\ sourceExists) =>
        \A k \in 1..Len(rows) :
            (~rows[k].raises /\ Truthy(rows[k].parent) /\ Truthy(rows[k].name))
                => \E i \in 1..Len(component_data) :
                       component_data[i] = Entry(rows[k])

\* C4: in a left-button gesture on a button, no drag is started while the
\* pointer stays within the threshold of the press position, and exactly one
\* drag, carrying the button's payload, is started once it has reached it.
C4_DragProtocol ==
    (gesture.button # 0 /\ gesture.held # "right") =>
        IF gesture.reached
        THEN /\ gesture.drags = 1
             /\ lastDrag = Some([button |-> gesture.button,
                    text |-> icon_buttons[gesture.button].component.object])
        ELSE gesture.drags = 0

\* upper and lower case forms of one letter
CasePairs == { <<"A", "a">>, <<"B", "b">> }

SameLetter(c, d) == c = d \/ <<c, d>> \in CasePairs \/ <<d, c>> \in CasePairs

\* q occurs in t when letter case is ignored
ContainsIgnoringCase(q, t) ==
    \E k \in 0..(Len(t) - Len(q)) :
        \A j \in 1..Len(q) : SameLetter(q[j], t[k + j])

DifferOnlyInCase(q, r) ==
    Len(q) = Len(r) /\ \A j \in 1..Len(q) : SameLetter(q[j], r[j])

\* C5: a button is visible iff the search text occurs, ignoring letter case,
\* in its name or in its category; a search text that differs from the
\* current one only in letter case gives every button the same visibility.
C5_FilterRule ==
    pc = "ready" =>
        /\ \A i \in 1..Len(icon_buttons) :
               visible[i] <=>
                   \/ ContainsIgnoringCase(searchText, icon_buttons[i].component_name)
                   \/ ContainsIgnoringCase(searchText, icon_buttons[i].category)
        /\ \A q \in Queries :
               DifferOnlyInCase(q, searchText) =>
                   FilterResult(icon_buttons, visible, q) = visible

C5_Witness ==
    /\ pc = "ready"
    /\ filterCalls # "none"
    /\ \E i \in 1..Len(icon_buttons) :
           /\ visible[i]
           /\ ~IsSubstring(searchText, icon_buttons[i].component_name)
           /\ ~IsSubstring(searchText, icon_buttons[i].category)
    /\ \E i \in 1..Len(icon_buttons) : ~visible[i]

\* C6: the visibility after any sequence of search texts is the one the last
\* text gives on a freshly populated palette, applying the last text again
\* changes nothing, and component_data is still what the load produced.
C6_HistoryIndependent ==
    pc = "ready" =>
        /\ visible = FilterResult(icon_buttons,
                                  [i \in 1..Len(icon_buttons) |-> TRUE],
                                  searchText)
        /\ FilterResult(icon_buttons, visible, searchText) = visible
        /\ component_data = LoadResult(sourceExists, rows, <<>>)

C6_Witness ==
    /\ pc = "ready"
    /\ filterCalls = "more"
    /\ \E i \in 1..Len(icon_buttons) : visible[i]
    /\ \E i \in 1..Len(icon_buttons) : ~visible[i]

VisibleIdentities ==
    { IdentityOf(icon_buttons[i].component) :
        i \in { j \in 1..Len(icon_buttons) : visible[j] } }

\* C7, as stated: after the filter has run with the empty text, the visible
\* set is the set of identities of all catalog entries.
C7_EmptyQueryShowsCatalog ==
    (pc = "ready" /\ filterCalls # "none" /\ searchText = <<>>) =>
        VisibleIdentities =
            { IdentityOf(component_data[i]) : i \in 1..Len(component_data) }

\* C7, amended: after the filter has run with the empty text, the visible
\* set is the set of identities of the catalog entries whose icon file exists.
C7_EmptyQueryShowsRendered ==
    (pc = "ready" /\ filterCalls # "none" /\ searchText = <<>>) =>
        VisibleIdentities =
            { IdentityOf(component_data[i]) :
                i \in { j \in 1..Len(component_data) :
                          GetIconPath(component_data[j].parent,
                                      component_data[j].name) \in iconFiles } }

C7_Witness ==
    /\ pc = "ready"
    /\ filterCalls = "more"
    /\ searchText = <<>>
    /\ icon_buttons # <<>>
    /\ \E j \in 1..Len(component_data) :
           GetIconPath(component_data[j].parent, component_data[j].name)
               \notin iconFiles

\* C8: the rendered buttons are in strictly ascending order of
\* (category, name).
C8_StrictlyAscending ==
    pc = "ready" =>
        \A i \in 1..(Len(icon_buttons) - 1) :
            \/ StrLess(icon_buttons[i].category, icon_buttons[i + 1].category)
            \/ /\ icon_buttons[i].category = icon_buttons[i + 1].category
               /\ StrLess(icon_buttons[i].component_name,
                          icon_buttons[i + 1].component_name)

\* C9: once the panel is constructed, no step changes component_data or
\* icon_buttons or looks an icon up again.
C9_Frame ==
    [][pc = "ready" =>
          /\ pc' = "ready"
          /\ component_data' = component_data
          /\ icon_buttons' = icon_buttons
          /\ iconLookups' = iconLookups]_vars

C9_Witness ==
    /\ pc = "ready"
    /\ filterCalls # "none"
    /\ lastDrag # None
    /\ \E i \in 1..Len(icon_buttons) : ~visible[i]

\* C10: every rendered button belongs to a catalog entry whose icon file
\* exists, an entry without icon file has no button (so it is never visible),
\* and every drag started comes from a rendered button and carries its payload.
C10_IconlessOmitted ==
    /\ DOMAIN visible = 1..Len(icon_buttons)
    /\ \A i \in 1..Len(icon_buttons) :
           /\ GetIconPath(icon_buttons[i].category,
                          icon_buttons[i].component_name) \in iconFiles
           /\ \E j \in 1..Len(component_data) :
                  /\ icon_buttons[i].component = component_data[j]
                  /\ icon_buttons[i].category = component_data[j].parent
                  /\ icon_buttons[i].component_name = component_data[j].name
    /\ \A j \in 1..Len(component_data) :
           GetIconPath(component_data[j].parent, component_data[j].name)
                   \notin iconFiles
               => \A i \in 1..Len(icon_buttons) :
                      IdentityOf(icon_buttons[i].component)
                          # IdentityOf(component_data[j])
    /\ lastDrag # None =>
           /\ lastDrag[1].button \in 1..Len(icon_buttons)
           /\ lastDrag[1].text = icon_buttons[lastDrag[1].button].component.object
           /\ GetIconPath(icon_buttons[lastDrag[1].button].category,
                          icon_buttons[lastDrag[1].button].component_name)
                  \in iconFiles

C10_Witness ==
    /\ pc = "ready"
    /\ filterCalls # "none"
    /\ lastDrag # None
    /\ \E j \in 1..Len(component_data) :
           GetIconPath(component_data[j].parent, component_data[j].name)
               \notin iconFiles

====
